---- MODULE Spec2Model ----
(***************************************************************************)
(* Arrakis MCP server (src/arrakis_mcp_server.py): the eleven operations   *)
(* the adapter registers with FastMCP, the process start-up and exit code  *)
(* of the __main__ block, and the sandbox service the operations call.     *)
(*                                                                         *)
(* Strings are TLA+ strings; an f-string is the concatenation (\o) of its  *)
(* literal parts and its values, and json.dumps(..., indent=2) is written  *)
(* out character by character for the records the service returns.         *)
(***************************************************************************)
EXTENDS Integers, Sequences, FiniteSets, TLC

VARIABLES
    pc,               \* position of the process: "load", "parsed", "ready", "running", "hosted", "exited"
    sandbox_manager,  \* the module-level global (line 36, assigned at line 255)
    exit_code,        \* exit status of the process, NoExit while it runs
    log,              \* records written through the "arrakis-mcp" logger
    args,             \* the parsed command line (args.arrakis_url), None before parsing
    stderr,           \* what else reached stderr: argparse's usage error, a traceback
    ended,            \* history: why the process ended, "no" while it runs
    vms,              \* service: VM name -> status, or NoVM
    files,            \* service: VM name -> path -> content, or NoFile
    snapshots,        \* service: the snapshot ids it stores
    generated,        \* service: how many snapshot ids it has generated
    op,               \* the last invocation: [name, vm, arg, content]
    calls,            \* the calls the last invocation made into py_arrakis, in order
    ret,              \* what the last call of the last invocation returned (or raised)
    fault,            \* the step of the last invocation that raised: "none", "resolve", "call", "read"
    result,           \* the string the last invocation returned to the protocol layer
    raised,           \* TRUE iff the last invocation let an exception reach the protocol layer
    clean,            \* history: destroy_all_vms succeeded and neither start_sandbox nor restore_snapshot ran since
    updated           \* history: the last successful update_vm_state to a valid status, until another operation touches that VM

vars == <<pc, sandbox_manager, exit_code, log, args, stderr, ended, vms, files, snapshots,
          generated, op, calls, ret, fault, result, raised, clean, updated>>

proc == <<pc, sandbox_manager, exit_code, log, args, stderr, ended>>
service == <<vms, files, snapshots, generated>>

(***************************************************************************)
(* Bounds                                                                  *)
(***************************************************************************)
NumVMs == 1          \* VM names the client uses: vm1 .. vmNumVMs
MaxGenerated == 1    \* snapshot ids the service generates in one run

VMNames == { "vm" \o ToString(i) : i \in 1..NumVMs }
VMName(i) == "vm" \o ToString(i)

NoVM == "<no vm>"
NoFile == "<no file>"
NoExit == 0 - 1
None == "None"

ValidStatuses == {"stopped", "paused"}
Statuses == {"running", "stopped", "paused", "hibernated"}
Paths == {"/a"}
Contents == {"", "hi"}
Commands == {"ls"}
GivenSnapshotIds == {"abc"}
GeneratedId(n) == "snap-" \o ToString(n)
SnapshotIds == GivenSnapshotIds \cup { GeneratedId(n) : n \in 1..MaxGenerated }
DEFAULT_ARRAKIS_URL == "http://localhost:7000"
Urls == {DEFAULT_ARRAKIS_URL}

(***************************************************************************)
(* Text                                                                    *)
(***************************************************************************)
StartsWith(s, p) == Len(s) >= Len(p) /\ SubSeq(s, 1, Len(p)) = p

\* The fixed text of each operation's except branch.
ErrorPrefix(name) ==
    CASE name = "get_vms"          -> "Error listing VMs: "
      [] name = "get_vm_info"      -> "Error retrieving VM information: "
      [] name = "start_sandbox"    -> "Error starting sandbox: "
      [] name = "restore_snapshot" -> "Error restoring snapshot: "
      [] name = "snapshot"         -> "Error creating snapshot: "
      [] name = "run_command"      -> "Error running command: "
      [] name = "upload_file"      -> "Error uploading file: "
      [] name = "download_file"    -> "Error downloading file: "
      [] name = "destroy_vm"       -> "Error destroying VM: "
      [] name = "destroy_all_vms"  -> "Error destroying VMs: "
      [] name = "update_vm_state"  -> "Error updating VM state: "

OpNames == {"get_vms", "get_vm_info", "start_sandbox", "restore_snapshot", "snapshot",
            "run_command", "upload_file", "download_file", "destroy_vm",
            "destroy_all_vms", "update_vm_state"}

\* json.dumps(info, indent=2) of one info record, nested `level` deep.
Indent(level) == IF level = 0 THEN "" ELSE IF level = 1 THEN "  " ELSE "    "
DumpsInfo(info, level) ==
    "{\n" \o Indent(level + 1) \o "\"name\": \"" \o info.name \o "\",\n"
          \o Indent(level + 1) \o "\"status\": \"" \o info.status \o "\"\n"
          \o Indent(level) \o "}"

RECURSIVE DumpsItems(_)
DumpsItems(infos) ==
    IF Len(infos) = 1 THEN Indent(1) \o DumpsInfo(Head(infos), 1)
    ELSE Indent(1) \o DumpsInfo(Head(infos), 1) \o ",\n" \o DumpsItems(Tail(infos))

\* json.dumps(vm_info, indent=2) of a list of info records.
DumpsList(infos) ==
    IF infos = <<>> THEN "[]" ELSE "[\n" \o DumpsItems(infos) \o "\n]"

(***************************************************************************)
(* The sandbox service behind py_arrakis (SandboxManager, Sandbox).        *)
(* A call is [fn, vm, arg, content]; S is the service's state; env is what *)
(* the environment decides for this call: whether the service is reachable *)
(* (down), whether it accepts a status it does not know (accept), the      *)
(* record a command produces (rec) and the shape of a file record (shape). *)
(* The answer is [ok, val, S] when the call returns and [ok, msg, S] when  *)
(* it raises.                                                              *)
(***************************************************************************)
ServiceState == [vms |-> vms, files |-> files, snapshots |-> snapshots, generated |-> generated]

NoFiles == [p \in Paths |-> NoFile]
Existing(S) == { v \in VMNames : S.vms[v] # NoVM }

RECURSIVE NamesFrom(_, _)
NamesFrom(S, i) ==
    IF i > NumVMs THEN <<>>
    ELSE IF S.vms[VMName(i)] # NoVM THEN <<VMName(i)>> \o NamesFrom(S, i + 1)
    ELSE NamesFrom(S, i + 1)

Returns(v, S) == [ok |-> TRUE, val |-> v, S |-> S]
Raises(m, S) == [ok |-> FALSE, msg |-> m, S |-> S]

\* An absent key of a returned dict is an absent field of the record.
CommandRecords ==
    { [output |-> "ok", error |-> e] : e \in {"", "boom"} }
      \cup { [output |-> "ok"] }
      \cup { [error |-> "boom"] }
      \cup { [exit_code |-> "0"] }
\* A returned value that is no dict (Python's None): reading it raises.
NotADict == [py_none |-> TRUE]
IsDict(r) == "py_none" \notin DOMAIN r

FileRecord(path, content, shape) ==
    IF content = NoFile THEN
        IF shape = "empty" THEN <<>> ELSE << [path |-> path, error |-> "file not found"] >>
    ELSE IF shape = "empty" THEN << [path |-> path, content |-> content] >>
    ELSE << [path |-> path, content |-> content, error |-> ""] >>

Env(down, accept, shape, rec) == [down |-> down, accept |-> accept, shape |-> shape, rec |-> rec]
Up == Env(FALSE, FALSE, "empty", NotADict)
Down == Env(TRUE, FALSE, "empty", NotADict)
Reach(down) == IF down THEN Down ELSE Up

ServiceCall(c, S, env) ==
    IF env.down THEN Raises("connection refused", S)
    ELSE CASE c.fn = "list_all" -> Returns(NamesFrom(S, 1), S)
      [] c.fn = "destroy_all" ->
            Returns(None, [S EXCEPT !.vms = [v \in VMNames |-> NoVM],
                                    !.files = [v \in VMNames |-> NoFiles]])
      [] c.fn = "start_sandbox" ->
            IF S.vms[c.vm] # NoVM THEN Raises("vm already exists", S)
            ELSE Returns(c.vm, [S EXCEPT !.vms[c.vm] = "running", !.files[c.vm] = NoFiles])
      [] c.fn = "restore" ->
            IF S.vms[c.vm] # NoVM THEN Raises("vm already exists", S)
            ELSE IF c.arg \notin S.snapshots THEN Raises("snapshot not found", S)
            ELSE Returns(c.vm, [S EXCEPT !.vms[c.vm] = "running", !.files[c.vm] = NoFiles])
      [] OTHER ->
            IF S.vms[c.vm] = NoVM THEN Raises("vm not found", S)
            ELSE CASE c.fn = "info" ->
                    Returns([name |-> c.vm, status |-> S.vms[c.vm]], S)
              [] c.fn = "snapshot" ->
                    IF c.arg = "" THEN
                        Returns(GeneratedId(S.generated + 1),
                                [S EXCEPT !.snapshots = @ \cup {GeneratedId(S.generated + 1)},
                                          !.generated = @ + 1])
                    ELSE Returns(c.arg, [S EXCEPT !.snapshots = @ \cup {c.arg}])
              [] c.fn = "run_cmd" -> Returns(env.rec, S)
              [] c.fn = "upload_files" ->
                    Returns(None, [S EXCEPT !.files[c.vm][c.arg] = c.content])
              [] c.fn = "download_files" ->
                    Returns(FileRecord(c.arg, S.files[c.vm][c.arg], env.shape), S)
              [] c.fn = "destroy" ->
                    Returns(None, [S EXCEPT !.vms[c.vm] = NoVM, !.files[c.vm] = NoFiles])
              [] c.fn = "update_state" ->
                    IF c.arg \in ValidStatuses \/ env.accept
                    THEN Returns(None, [S EXCEPT !.vms[c.vm] = c.arg])
                    ELSE Raises("invalid status", S)

Call(fn, vm, arg, content) == [fn |-> fn, vm |-> vm, arg |-> arg, content |-> content]

(***************************************************************************)
(* The adapter: what an invocation did is an outcome                       *)
(*   [calls, ret, fault, out, S]                                           *)
(* the calls made, the last value returned, the step that raised, the      *)
(* response [result, raised] and the service's state afterwards.           *)
(***************************************************************************)
NoUpdate == [vm |-> NoVM, status |-> ""]
NoOp == [name |-> "none", vm |-> None, arg |-> "", content |-> ""]

\* return <text>
Returned(text) == [result |-> text, raised |-> FALSE]

\* Variant: an except clause that names only the service's connection errors.
CaughtOnlyCallFaults(name, step, e) ==
    IF step = "call" THEN [result |-> ErrorPrefix(name) \o e, raised |-> FALSE]
    ELSE [result |-> "", raised |-> TRUE]

\* except Exception as e: return f"<prefix>{str(e)}"
Caught(name, step, e) == [result |-> ErrorPrefix(name) \o e, raised |-> FALSE]

\* str(e) of the AttributeError that sandbox_manager.<attr> raises while the global is None
AttributeErrorOf(attr) == "'NoneType' object has no attribute '" \o attr \o "'"

Outcome(cs, r, f, out, S) == [calls |-> cs, ret |-> r, fault |-> f, out |-> out, S |-> S]

\* sandbox_manager.<attr> with the global still None: the try block ends before any call
Unresolved(name, attr) ==
    Outcome(<<>>, None, "resolve", Caught(name, "resolve", AttributeErrorOf(attr)), ServiceState)

\* Variant: the failed call is made once more before giving up.
FailedAfterRetry(name, cs, a) ==
    Outcome(cs \o <<cs[Len(cs)]>>, None, "call", Caught(name, "call", a.msg), a.S)

\* the external call raised
Failed(name, cs, a) == Outcome(cs, None, "call", Caught(name, "call", a.msg), a.S)

\* vm_info = [vm.info() for vm in vms]; return json.dumps(vm_info, indent=2)
ListText(infos) == DumpsList(infos)

\* return json.dumps(sandbox.info(), indent=2)
InfoText(info) == DumpsInfo(info, 0)

\* failAt = k > 0: the k-th call of the invocation finds the service unreachable
get_vms_run(failAt) ==
    IF sandbox_manager = None THEN Unresolved("get_vms", "list_all")
    ELSE LET c1 == Call("list_all", None, "", "")
             a1 == ServiceCall(c1, ServiceState, Reach(failAt = 1))
         IN  IF ~a1.ok THEN Failed("get_vms", <<c1>>, a1)
             ELSE LET names == a1.val
                      made == IF failAt = 0 THEN Len(names) ELSE failAt - 1
                      cs == <<c1>> \o [i \in 1..made |-> Call("info", names[i], "", "")]
                      infos == [i \in 1..Len(names) |->
                                   ServiceCall(Call("info", names[i], "", ""), a1.S, Up).val]
                  IN  IF failAt = 0
                      THEN Outcome(cs, infos, "none", Returned(ListText(infos)), a1.S)
                      ELSE Failed("get_vms", cs, ServiceCall(cs[Len(cs)], a1.S, Down))

get_vm_info_run(vm_name, down) ==
    IF sandbox_manager = None THEN Unresolved("get_vm_info", "_api")
    ELSE LET c == Call("info", vm_name, "", "")
             a == ServiceCall(c, ServiceState, Reach(down))
         IN  IF ~a.ok THEN Failed("get_vm_info", <<c>>, a)
             ELSE Outcome(<<c>>, a.val, "none", Returned(InfoText(a.val)), a.S)

\* sandbox = <create>; return json.dumps(sandbox.info(), indent=2)
CreateThenInfo(name, attr, c1, failAt) ==
    IF sandbox_manager = None THEN Unresolved(name, attr)
    ELSE LET a1 == ServiceCall(c1, ServiceState, Reach(failAt = 1))
         IN  IF ~a1.ok THEN Failed(name, <<c1>>, a1)
             ELSE LET c2 == Call("info", a1.val, "", "")
                      a2 == ServiceCall(c2, a1.S, Reach(failAt = 2))
                  IN  IF ~a2.ok THEN Failed(name, <<c1, c2>>, a2)
                      ELSE Outcome(<<c1, c2>>, a2.val, "none", Returned(InfoText(a2.val)), a2.S)

start_sandbox_run(name, failAt) ==
    CreateThenInfo("start_sandbox", "start_sandbox", Call("start_sandbox", name, "", ""), failAt)

restore_snapshot_run(vm_name, snapshot_id, failAt) ==
    CreateThenInfo("restore_snapshot", "restore", Call("restore", vm_name, snapshot_id, ""), failAt)

\* Variant: the id argument is dropped, so the service always generates one.
SnapshotCallWithoutId(vm_name, snapshot_id) == Call("snapshot", vm_name, "", "")

\* result = sandbox.snapshot(snapshot_id)
SnapshotCall(vm_name, snapshot_id) == Call("snapshot", vm_name, snapshot_id, "")
\* return f"Created snapshot with ID: {result}"
SnapshotText(id) == "Created snapshot with ID: " \o id

snapshot_run(vm_name, snapshot_id, down) ==
    IF sandbox_manager = None THEN Unresolved("snapshot", "_api")
    ELSE LET c == SnapshotCall(vm_name, snapshot_id)
             a == ServiceCall(c, ServiceState, Reach(down))
         IN  IF ~a.ok THEN Failed("snapshot", <<c>>, a)
             ELSE Outcome(<<c>>, a.val, "none", Returned(SnapshotText(a.val)), a.S)

\* result.get(key, "")
Get(r, key) == IF key \in DOMAIN r THEN r[key] ELSE ""

\* Variant: the error section is appended whenever the key is present.
CommandTextErrorKey(r) ==
    IF "error" \in DOMAIN r
    THEN "Command output:\n" \o Get(r, "output") \o "\n\nError:\n" \o r["error"]
    ELSE "Command output:\n" \o Get(r, "output")

\* output = result.get("output", ""); error = result.get("error", ""); if error: ... ; ...
CommandText(r) ==
    LET output == Get(r, "output")
        error == Get(r, "error")
    IN  IF error # "" THEN "Command output:\n" \o output \o "\n\nError:\n" \o error
        ELSE "Command output:\n" \o output

run_command_run(vm_name, cmd, down, rec) ==
    IF sandbox_manager = None THEN Unresolved("run_command", "_api")
    ELSE LET c == Call("run_cmd", vm_name, cmd, "")
             a == ServiceCall(c, ServiceState, Env(down, FALSE, "empty", rec))
         IN  IF ~a.ok THEN Failed("run_command", <<c>>, a)
             ELSE IF ~IsDict(a.val)
             THEN Outcome(<<c>>, a.val, "read",
                          Caught("run_command", "read", AttributeErrorOf("get")), a.S)
             ELSE Outcome(<<c>>, a.val, "none", Returned(CommandText(a.val)), a.S)

\* sandbox.upload_files([{"path": path, "content": content}])
UploadCall(vm_name, path, content) == Call("upload_files", vm_name, path, content)
\* return f"Successfully uploaded file to {path}"
UploadText(path) == "Successfully uploaded file to " \o path

upload_file_run(vm_name, path, content, down) ==
    IF sandbox_manager = None THEN Unresolved("upload_file", "_api")
    ELSE LET c == UploadCall(vm_name, path, content)
             a == ServiceCall(c, ServiceState, Reach(down))
         IN  IF ~a.ok THEN Failed("upload_file", <<c>>, a)
             ELSE Outcome(<<c>>, a.val, "none", Returned(UploadText(path)), a.S)

\* Variant: the content is returned without the heading.
DownloadTextBare(path, res) ==
    IF res = <<>> THEN "No file found at path: " \o path
    ELSE IF "error" \in DOMAIN res[1] /\ res[1]["error"] # ""
    THEN "Error downloading file: " \o res[1]["error"]
    ELSE IF "content" \in DOMAIN res[1] THEN res[1]["content"] ELSE ""

\* if not result: ...; file_data = result[0]; if "error" in file_data and file_data["error"]: ...; ...
DownloadText(path, res) ==
    IF res = <<>> THEN "No file found at path: " \o path
    ELSE LET file_data == res[1]
         IN  IF "error" \in DOMAIN file_data /\ file_data["error"] # ""
             THEN "Error downloading file: " \o file_data["error"]
             ELSE "File content:\n" \o Get(file_data, "content")

download_file_run(vm_name, path, down, shape) ==
    IF sandbox_manager = None THEN Unresolved("download_file", "_api")
    ELSE LET c == Call("download_files", vm_name, path, "")
             a == ServiceCall(c, ServiceState, Env(down, FALSE, shape, NotADict))
         IN  IF ~a.ok THEN Failed("download_file", <<c>>, a)
             ELSE Outcome(<<c>>, a.val, "none", Returned(DownloadText(path, a.val)), a.S)

\* return f"Successfully destroyed VM {vm_name}"
DestroyText(vm_name) == "Successfully destroyed VM " \o vm_name

destroy_vm_run(vm_name, down) ==
    IF sandbox_manager = None THEN Unresolved("destroy_vm", "_api")
    ELSE LET c == Call("destroy", vm_name, "", "")
             a == ServiceCall(c, ServiceState, Reach(down))
         IN  IF ~a.ok THEN Failed("destroy_vm", <<c>>, a)
             ELSE Outcome(<<c>>, a.val, "none", Returned(DestroyText(vm_name)), a.S)

\* return "Successfully destroyed all VMs"
DestroyAllText == "Successfully destroyed all VMs"

\* Variant: the confirmation is returned without the call.
destroy_all_vms_without_call(down) ==
    Outcome(<<>>, None, "none", Returned(DestroyAllText), ServiceState)

destroy_all_vms_run(down) ==
    IF sandbox_manager = None THEN Unresolved("destroy_all_vms", "destroy_all")
    ELSE LET c == Call("destroy_all", None, "", "")
             a == ServiceCall(c, ServiceState, Reach(down))
         IN  IF ~a.ok THEN Failed("destroy_all_vms", <<c>>, a)
             ELSE Outcome(<<c>>, a.val, "none", Returned(DestroyAllText), a.S)

\* Variant: the status argument is replaced by a fixed one.
UpdateCallStopped(vm_name, status) == Call("update_state", vm_name, "stopped", "")

\* sandbox.update_state(status)
UpdateCall(vm_name, status) == Call("update_state", vm_name, status, "")
\* return f"Successfully updated VM {vm_name} state to {status}"
UpdateText(vm_name, status) ==
    "Successfully updated VM " \o vm_name \o " state to " \o status

\* Variant: the status is validated before the call.
update_vm_state_validating(vm_name, status, down, accept) ==
    IF status \notin ValidStatuses
    THEN Outcome(<<>>, None, "none", Returned("Invalid status: " \o status), ServiceState)
    ELSE LET c == Call("update_state", vm_name, status, "")
             a == ServiceCall(c, ServiceState, Env(down, accept, "empty", NotADict))
         IN  IF ~a.ok THEN Outcome(<<c>>, None, "call", Caught("update_vm_state", "call", a.msg), a.S)
             ELSE Outcome(<<c>>, a.val, "none",
                          Returned("Successfully updated VM " \o vm_name \o " state to " \o status), a.S)

update_vm_state_run(vm_name, status, down, accept) ==
    IF sandbox_manager = None THEN Unresolved("update_vm_state", "_api")
    ELSE LET c == UpdateCall(vm_name, status)
             a == ServiceCall(c, ServiceState, Env(down, accept, "empty", NotADict))
         IN  IF ~a.ok THEN Failed("update_vm_state", <<c>>, a)
             ELSE Outcome(<<c>>, a.val, "none", Returned(UpdateText(vm_name, status)), a.S)

(***************************************************************************)
(* Operations, as the protocol layer invokes them.  FastMCP serves them    *)
(* while mcp.run is running, or while a host that imported the module      *)
(* serves its `mcp` object.                                                *)
(***************************************************************************)
Serving == pc \in {"running", "hosted"}

\* Variant: a failed invocation drops the client so that the next one starts afresh.
RespondDroppingClient(name, vm, arg, content, o) ==
    /\ op' = [name |-> name, vm |-> vm, arg |-> arg, content |-> content]
    /\ calls' = o.calls
    /\ ret' = o.ret
    /\ fault' = o.fault
    /\ result' = o.out.result
    /\ raised' = o.out.raised
    /\ vms' = o.S.vms
    /\ files' = o.S.files
    /\ snapshots' = o.S.snapshots
    /\ generated' = o.S.generated
    /\ sandbox_manager' = IF o.fault = "none" THEN sandbox_manager ELSE None
    /\ UNCHANGED <<pc, exit_code, log, args, stderr, ended>>

Respond(name, vm, arg, content, o) ==
    /\ op' = [name |-> name, vm |-> vm, arg |-> arg, content |-> content]
    /\ calls' = o.calls
    /\ ret' = o.ret
    /\ fault' = o.fault
    /\ result' = o.out.result
    /\ raised' = o.out.raised
    /\ vms' = o.S.vms
    /\ files' = o.S.files
    /\ snapshots' = o.S.snapshots
    /\ generated' = o.S.generated
    /\ UNCHANGED proc

Touch(vm) == IF updated.vm = vm THEN NoUpdate ELSE updated

get_vms ==
    /\ Serving
    /\ \E failAt \in 0..(NumVMs + 1) :
          /\ failAt <= (IF sandbox_manager = None THEN 0 ELSE 1 + Cardinality(Existing(ServiceState)))
          /\ Respond("get_vms", None, "", "", get_vms_run(failAt))
    /\ UNCHANGED <<clean, updated>>

get_vm_info(vm_name) ==
    /\ Serving
    /\ \E down \in BOOLEAN :
          Respond("get_vm_info", vm_name, "", "", get_vm_info_run(vm_name, down))
    /\ UNCHANGED <<clean, updated>>

start_sandbox(name) ==
    /\ Serving
    /\ \E failAt \in 0..2 :
          Respond("start_sandbox", name, "", "", start_sandbox_run(name, failAt))
    /\ clean' = FALSE
    /\ updated' = Touch(name)

restore_snapshot(vm_name, snapshot_id) ==
    /\ Serving
    /\ \E failAt \in 0..2 :
          Respond("restore_snapshot", vm_name, snapshot_id, "",
                  restore_snapshot_run(vm_name, snapshot_id, failAt))
    /\ clean' = FALSE
    /\ updated' = Touch(vm_name)

snapshot(vm_name, snapshot_id) ==
    /\ Serving
    /\ snapshot_id = "" => generated < MaxGenerated
    /\ \E down \in BOOLEAN :
          Respond("snapshot", vm_name, snapshot_id, "", snapshot_run(vm_name, snapshot_id, down))
    /\ updated' = Touch(vm_name)
    /\ UNCHANGED clean

run_command(vm_name, cmd) ==
    /\ Serving
    /\ \E down \in BOOLEAN, rec \in CommandRecords \cup {NotADict} :
          /\ down => rec = NotADict
          /\ Respond("run_command", vm_name, cmd, "", run_command_run(vm_name, cmd, down, rec))
    /\ updated' = Touch(vm_name)
    /\ UNCHANGED clean

upload_file(vm_name, path, content) ==
    /\ Serving
    /\ \E down \in BOOLEAN :
          Respond("upload_file", vm_name, path, content,
                  upload_file_run(vm_name, path, content, down))
    /\ updated' = Touch(vm_name)
    /\ UNCHANGED clean

download_file(vm_name, path) ==
    /\ Serving
    /\ \E down \in BOOLEAN, shape \in {"empty", "error"} :
          /\ down => shape = "empty"
          /\ Respond("download_file", vm_name, path, "",
                  download_file_run(vm_name, path, down, shape))
    /\ updated' = Touch(vm_name)
    /\ UNCHANGED clean

destroy_vm(vm_name) ==
    /\ Serving
    /\ \E down \in BOOLEAN :
          Respond("destroy_vm", vm_name, "", "", destroy_vm_run(vm_name, down))
    /\ updated' = Touch(vm_name)
    /\ UNCHANGED clean

destroy_all_vms ==
    /\ Serving
    /\ \E down \in BOOLEAN :
          LET o == destroy_all_vms_run(down)
          IN  /\ Respond("destroy_all_vms", None, "", "", o)
              /\ clean' = IF o.fault = "none" THEN TRUE ELSE clean
    /\ updated' = NoUpdate

update_vm_state(vm_name, status) ==
    /\ Serving
    /\ \E down \in BOOLEAN, accept \in BOOLEAN :
          LET o == update_vm_state_run(vm_name, status, down, accept)
          IN  /\ accept => ~down /\ status \notin ValidStatuses
              /\ Respond("update_vm_state", vm_name, status, "", o)
              /\ updated' = IF o.fault = "none" /\ status \in ValidStatuses
                            THEN [vm |-> vm_name, status |-> status]
                            ELSE Touch(vm_name)
    /\ UNCHANGED clean

(***************************************************************************)
(* The process: the module body and the __main__ block.                    *)
(***************************************************************************)
\* The client object SandboxManager(url) builds, named by the URL it was given.
SandboxManager(url) == "SandboxManager(" \o url \o ")"

Logged(level, msg) == [level |-> level, msg |-> msg]
obs == <<op, calls, ret, fault, result, raised, clean, updated>>

\* The process ends: nothing it held is left, no response is pending.
Exit(why, code) ==
    /\ pc' = "exited"
    /\ ended' = why
    /\ exit_code' = code
    /\ op' = NoOp
    /\ calls' = <<>>
    /\ ret' = None
    /\ fault' = "none"
    /\ result' = ""
    /\ raised' = FALSE
    /\ clean' = FALSE
    /\ updated' = NoUpdate

\* The module is imported by a host (__name__ is not "__main__"): the block is skipped.
Imported ==
    /\ pc = "load"
    /\ pc' = "hosted"
    /\ UNCHANGED <<sandbox_manager, exit_code, log, args, stderr, ended, service, obs>>

\* args = parser.parse_args()
ParseArgs(url) ==
    /\ pc = "load"
    /\ pc' = "parsed"
    /\ args' = url
    /\ UNCHANGED <<sandbox_manager, exit_code, log, stderr, ended, service, obs>>

\* parse_args() rejects the command line: usage and error on stderr, SystemExit(2)
ParseArgsFails ==
    /\ pc = "load"
    /\ Exit("parse_args", 2)
    /\ stderr' = "usage"
    /\ UNCHANGED <<sandbox_manager, log, args, service>>

\* sandbox_manager = SandboxManager(args.arrakis_url)
Construct ==
    /\ pc = "parsed"
    /\ sandbox_manager' = SandboxManager(args)
    /\ pc' = "ready"
    /\ UNCHANGED <<exit_code, log, args, stderr, ended, service, obs>>

\* SandboxManager(...) raises outside the try: the interpreter prints the traceback, status 1
ConstructFails ==
    /\ pc = "parsed"
    /\ Exit("construct", 1)
    /\ stderr' = "traceback"
    /\ UNCHANGED <<sandbox_manager, log, args, service>>

\* logger.info("Starting Arrakis MCP Server..."); mcp.run(transport="stdio") starts serving
StartServer ==
    /\ pc = "ready"
    /\ log' = Append(log, Logged("INFO", "Starting Arrakis MCP Server..."))
    /\ pc' = "running"
    /\ UNCHANGED <<sandbox_manager, exit_code, args, stderr, ended, service, obs>>

\* except KeyboardInterrupt: logger.info("Server shutting down..."); the script ends
Interrupt ==
    /\ pc \in {"ready", "running"}
    /\ log' = Append(log, Logged("INFO", "Server shutting down..."))
    /\ Exit("interrupt", 0)
    /\ UNCHANGED <<sandbox_manager, args, stderr, service>>

\* KeyboardInterrupt before the try is entered: no handler, the interpreter ends the process
InterruptEarly ==
    /\ pc \in {"load", "parsed"}
    /\ \E code \in {1, 130} : Exit("interrupt_early", code)
    /\ stderr' = "traceback"
    /\ UNCHANGED <<sandbox_manager, log, args, service>>

\* Variant: the error is logged and the script runs off its end.
RunFailsWithoutExit(e) ==
    /\ pc \in {"ready", "running"}
    /\ log' = Append(log, Logged("ERROR", "Error running server: " \o e))
    /\ Exit("run", 0)
    /\ UNCHANGED <<sandbox_manager, args, stderr, service>>

\* except Exception as e: logger.error(f"Error running server: {e}"); sys.exit(1)
RunFails(e) ==
    /\ pc \in {"ready", "running"}
    /\ log' = Append(log, Logged("ERROR", "Error running server: " \o e))
    /\ Exit("run", 1)
    /\ UNCHANGED <<sandbox_manager, args, stderr, service>>

\* mcp.run returns (the client closed the transport): the script ends
RunReturns ==
    /\ pc = "running"
    /\ Exit("return", 0)
    /\ UNCHANGED <<sandbox_manager, log, args, stderr, service>>

Init ==
    /\ pc = "load"
    /\ sandbox_manager = None
    /\ exit_code = NoExit
    /\ log = <<>>
    /\ args = None
    /\ stderr = "none"
    /\ ended = "no"
    /\ vms = [v \in VMNames |-> NoVM]
    /\ files = [v \in VMNames |-> NoFiles]
    /\ snapshots = {}
    /\ generated = 0
    /\ op = NoOp
    /\ calls = <<>>
    /\ ret = None
    /\ fault = "none"
    /\ result = ""
    /\ raised = FALSE
    /\ clean = FALSE
    /\ updated = NoUpdate

Next ==
    \/ Imported
    \/ \E url \in Urls : ParseArgs(url)
    \/ ParseArgsFails
    \/ Construct
    \/ ConstructFails
    \/ StartServer
    \/ Interrupt
    \/ InterruptEarly
    \/ \E e \in {"address already in use"} : RunFails(e)
    \/ RunReturns
    \/ get_vms
    \/ \E v \in VMNames : get_vm_info(v)
    \/ \E v \in VMNames : start_sandbox(v)
    \/ \E v \in VMNames, s \in SnapshotIds : restore_snapshot(v, s)
    \/ \E v \in VMNames, s \in GivenSnapshotIds \cup {""} : snapshot(v, s)
    \/ \E v \in VMNames, c \in Commands : run_command(v, c)
    \/ \E v \in VMNames, p \in Paths, c \in Contents : upload_file(v, p, c)
    \/ \E v \in VMNames, p \in Paths : download_file(v, p)
    \/ \E v \in VMNames : destroy_vm(v)
    \/ destroy_all_vms
    \/ \E v \in VMNames, s \in Statuses \ {"running"} : update_vm_state(v, s)

Spec == Init /\ [][Next]_vars

(***************************************************************************)
(* Properties                                                              *)
(***************************************************************************)
Invoked == op.name \in OpNames
Answered == Invoked /\ fault = "none"
PerVM == OpNames \ {"get_vms", "destroy_all_vms"}
Last(q) == q[Len(q)]

\* The failure labels as the specification lists them.
StatedPrefix ==
    [get_vms |-> "Error listing VMs: ",
     get_vm_info |-> "Error retrieving VM information: ",
     start_sandbox |-> "Error starting sandbox: ",
     restore_snapshot |-> "Error restoring snapshot: ",
     snapshot |-> "Error creating snapshot: ",
     run_command |-> "Error running command: ",
     upload_file |-> "Error uploading file: ",
     download_file |-> "Error downloading file: ",
     destroy_vm |-> "Error destroying VM: ",
     destroy_all_vms |-> "Error destroying VMs: ",
     update_vm_state |-> "Error updating VM state: "]

\* C1: whichever of the eleven operations ran and whichever step of it raised
\* (resolving the handle, the external call, reading the returned record), the
\* operation returned a string that begins with its own failure label, and no
\* invocation ever lets an exception through to the protocol layer.
C1_FaultsBecomeText ==
    Invoked =>
        /\ ~raised
        /\ fault # "none" => StartsWith(result, StatedPrefix[op.name])

\* A command was run whose returned value could not be read, and the caller got text.
C1_Witness ==
    /\ op.name = "run_command"
    /\ fault = "read"
    /\ result = "Error running command: 'NoneType' object has no attribute 'get'"

\* C2 as stated: download_file never raises, answers a path that does not exist
\* with a message that no file was found (the adapter's own, or the one the
\* service put in the file record), and answers an existing path with exactly
\* the stored content.
C2_LiteralContent ==
    op.name = "download_file" =>
        /\ ~raised
        /\ Answered =>
              IF files[op.vm][op.arg] = NoFile
              THEN result \in {"No file found at path: " \o op.arg,
                               "Error downloading file: file not found"}
              ELSE result = files[op.vm][op.arg]

\* C2 amended: download_file never raises; when the service returns no file
\* record the result is "No file found at path: <path>", when the record carries
\* a non-empty error it is "Error downloading file: <error>", and otherwise it is
\* "File content:\n" followed by the record's content; for a path that exists in
\* the VM that is the heading followed by exactly the stored content.
C2_HeadedContent ==
    op.name = "download_file" =>
        /\ ~raised
        /\ Answered =>
              /\ ret = <<>> => result = "No file found at path: " \o op.arg
              /\ ret # <<>> =>
                    IF "error" \in DOMAIN ret[1] /\ ret[1].error # ""
                    THEN result = "Error downloading file: " \o ret[1].error
                    ELSE result = "File content:\n"
                                    \o (IF "content" \in DOMAIN ret[1] THEN ret[1].content ELSE "")
              /\ files[op.vm][op.arg] # NoFile =>
                    result = "File content:\n" \o files[op.vm][op.arg]

\* A file stored by upload_file was downloaded.
C2_Witness ==
    /\ op.name = "download_file"
    /\ Answered
    /\ files[op.vm][op.arg] = "hi"
    /\ result = "File content:\nhi"

C4_InfoReflectsUpdate ==
    op.name = "get_vm_info" /\ updated.vm = op.vm /\ Answered =>
        result = "{\n  \"name\": \"" \o op.vm \o "\",\n  \"status\": \""
                    \o updated.status \o "\"\n}"

C4_Witness ==
    /\ op.name = "get_vm_info"
    /\ updated = [vm |-> op.vm, status |-> "paused"]
    /\ Answered

\* C5: snapshot forwards the id it was given, empty or not, in its one call; on
\* an existing VM of a reachable service it returns the success string; for a
\* non-empty id the string ends with exactly that id, and for an empty id with
\* an id the service generated and now stores.
C5_SnapshotId ==
    op.name = "snapshot" =>
        /\ sandbox_manager # None =>
              calls = << [fn |-> "snapshot", vm |-> op.vm, arg |-> op.arg, content |-> ""] >>
        /\ (/\ sandbox_manager # None
            /\ vms[op.vm] # NoVM
            /\ result # "Error creating snapshot: connection refused")
              => StartsWith(result, "Created snapshot with ID: ")
        /\ Answered /\ op.arg # "" => result = "Created snapshot with ID: " \o op.arg
        /\ Answered /\ op.arg = "" =>
              \E n \in 1..generated :
                  /\ result = "Created snapshot with ID: " \o GeneratedId(n)
                  /\ GeneratedId(n) \in snapshots

\* A snapshot with the id "abc" succeeded after one with an empty id had.
C5_Witness ==
    /\ op.name = "snapshot"
    /\ op.arg = "abc"
    /\ result = "Created snapshot with ID: abc"
    /\ GeneratedId(1) \in snapshots

\* C6: update_vm_state forwards every status unchanged, valid or not; a
\* rejection comes back only as the "Error updating VM state: " text; and when
\* the service does not reject, the confirmation names that status.
C6_StatusForwarded ==
    op.name = "update_vm_state" =>
        /\ ~raised
        /\ sandbox_manager # None =>
              calls = << [fn |-> "update_state", vm |-> op.vm, arg |-> op.arg, content |-> ""] >>
        /\ fault # "none" => StartsWith(result, "Error updating VM state: ")
        /\ Answered =>
              result = "Successfully updated VM " \o op.vm \o " state to " \o op.arg

\* A status outside the two valid ones reached the service, which rejected it.
C6_Witness ==
    /\ op.name = "update_vm_state"
    /\ op.arg \notin ValidStatuses
    /\ result = "Error updating VM state: invalid status"
    /\ Len(calls) = 1

NoCallRepeated == \A i, j \in 1..Len(calls) : i # j => calls[i] # calls[j]

HasError(q) == \E i \in 1..Len(q) : q[i].level = "ERROR"

\* C8 as stated: an interrupt ends the process with the shutdown line and exit
\* code 0, and every other start-up failure (parsing the arguments, constructing
\* the client, running the transport) both logs the error and ends the process
\* with a non-zero exit code.
C8_EveryFailureLogged ==
    pc = "exited" =>
        /\ ended \in {"interrupt", "interrupt_early"} =>
              /\ exit_code = 0
              /\ log # <<>> /\ Last(log) = Logged("INFO", "Server shutting down...")
        /\ ended \in {"parse_args", "construct", "run"} =>
              /\ exit_code # 0
              /\ HasError(log)

\* C8 amended: the server runs until it is interrupted, fails or its transport
\* returns; an interrupt that arrives once the try block is entered ends the
\* process with the shutdown line and exit code 0; a failure of the transport is
\* logged as "Error running server: ..." and ends it with exit code 1; a failure
\* to parse the arguments or to construct the client, and an interrupt before the
\* try block, end it with a non-zero exit code without a logger record (usage
\* text or a traceback on stderr instead).
C8_ExitBehaviour ==
    /\ pc # "exited" => exit_code = NoExit /\ ended = "no"
    /\ pc = "exited" =>
          CASE ended = "interrupt" ->
                  /\ exit_code = 0
                  /\ Last(log) = Logged("INFO", "Server shutting down...")
                  /\ ~HasError(log)
            [] ended = "run" ->
                  /\ exit_code = 1
                  /\ Last(log).level = "ERROR"
                  /\ StartsWith(Last(log).msg, "Error running server: ")
            [] ended \in {"parse_args", "construct", "interrupt_early"} ->
                  /\ exit_code # 0
                  /\ log = <<>>
                  /\ stderr \in {"usage", "traceback"}
            [] ended = "return" -> exit_code = 0 /\ ~HasError(log)

\* The transport failed after the server had started.
C8_Witness ==
    /\ pc = "exited"
    /\ ended = "run"
    /\ exit_code = 1
    /\ Len(log) = 2

C10_CommandText ==
    op.name = "run_command" /\ Answered =>
        LET output == IF "output" \in DOMAIN ret THEN ret.output ELSE ""
            hasError == "error" \in DOMAIN ret /\ ret.error # ""
        IN  /\ result = "Command output:\n" \o output
                          \o (IF hasError THEN "\n\nError:\n" \o ret.error ELSE "")
            /\ ~StartsWith(result, "Error running command: ")

\* A command returned output and a non-empty error.
C10_Witness ==
    /\ op.name = "run_command"
    /\ Answered
    /\ ret = [output |-> "ok", error |-> "boom"]
    /\ result = "Command output:\nok\n\nError:\nboom"

====
